---- MODULE Spec2Model ----
(***************************************************************************)
(* CuraFrame core (cura_frame/core.py, cura_frame/comparators.py):         *)
(* the constraint-evaluation engine, its population stratification and     *)
(* the comparators its constraints carry.                                  *)
(*                                                                         *)
(* Python objects that the code mutates or copies (Constraint) live in a   *)
(* heap of object ids, so that "copy" and "mutate in place" differ.        *)
(* Numbers are integers; confidences are percentages (1.0 = 100).          *)
(* Exceptions are outcomes: every operator that can raise returns a record *)
(* with a field saying which exception, if any, left it.                   *)
(***************************************************************************)
EXTENDS Integers, Sequences, FiniteSets, TLC

VARIABLES
    phase,               \* "new" | "ready" | "config_error"
    given,               \* the list handed to CuraFrame(...)
    safety_constraints,  \* CuraFrame.safety_constraints: list of object ids
    heap,                \* object id -> Constraint fields
    populations,         \* PopulationStratification.populations
    evaluation_history,  \* CuraFrame.evaluation_history
    last,                \* the latest call: its arguments and its outcome
    threads              \* the evaluate() calls in progress, one per thread

vars == <<phase, given, safety_constraints, heap, populations,
          evaluation_history, last, threads>>

----------------------------------------------------------------------------
(* Bounds *)

MaxHistory == 2

----------------------------------------------------------------------------
(* Values a candidate property can hold, and thresholds *)

IntV(n) == [type |-> "int", v |-> n, huge |-> FALSE]
StrV == [type |-> "str", v |-> 0, huge |-> FALSE]
NoneV == [type |-> "NoneType", v |-> 0, huge |-> FALSE]
\* an int too large to convert to a float, e.g. 10**400
HugeV == [type |-> "int", v |-> 0, huge |-> TRUE]

\* float('nan'), the one float that is not modelled by an integer
NaNV == [type |-> "float", v |-> 0, huge |-> FALSE]

IsHuge(value) == value.huge
IsNaN(value) == value.type = "float"
IsNumber(value) == value.type \in {"int", "float"}

\* a threshold is <<t>> (scalar) or <<lower, upper>> (a pair of bounds)
Scalar(t) == <<t>>
Bounds(lower, upper) == <<lower, upper>>
IsTuple(threshold) == Len(threshold) = 2

TypeName(value) == value.type
ThresholdTypeName(threshold) == IF IsTuple(threshold) THEN "tuple" ELSE "int"

NoProvenance == [present |-> FALSE, confidence |-> 0, references |-> 0]
Provenance(confidence, nrefs) ==
    [present |-> TRUE, confidence |-> confidence, references |-> nrefs]

----------------------------------------------------------------------------
(* comparators.py: each comparator yields "True", "False" or the name of  *)
(* the exception it raises                                                *)

Bool(b) == IF b THEN "True" ELSE "False"

\* Python's  value <op> threshold  for the ordering operators
Ordered(value, threshold) ==
    IsNumber(value) /\ ~IsTuple(threshold)

less_than(value, threshold) ==
    IF ~Ordered(value, threshold) THEN "TypeError"
    ELSE IF IsNaN(value) \/ IsHuge(value) THEN "False"
    ELSE Bool(value.v < threshold[1])

greater_than(value, threshold) ==
    IF ~Ordered(value, threshold) THEN "TypeError"
    ELSE IF IsNaN(value) THEN "False"
    ELSE IF IsHuge(value) THEN "True"
    ELSE Bool(value.v > threshold[1])

less_than_or_equal(value, threshold) ==
    IF ~Ordered(value, threshold) THEN "TypeError"
    ELSE IF IsNaN(value) \/ IsHuge(value) THEN "False"
    ELSE Bool(value.v <= threshold[1])

greater_than_or_equal(value, threshold) ==
    IF ~Ordered(value, threshold) THEN "TypeError"
    ELSE IF IsNaN(value) THEN "False"
    ELSE IF IsHuge(value) THEN "True"
    ELSE Bool(value.v >= threshold[1])

\* within_range_inclusive, with the bounds inside whatever inclusive is
within_range_inclusive_Closed(value, bounds, inclusive) ==
    IF ~IsTuple(bounds) THEN "TypeError"
    ELSE IF bounds[1] > bounds[2] THEN "ValueError"
    ELSE IF ~IsNumber(value) THEN "TypeError"
    ELSE IF IsHuge(value) THEN "OverflowError"
    ELSE IF IsNaN(value) THEN "False"
    ELSE Bool(bounds[1] <= value.v /\ value.v <= bounds[2])

\* within_range(value, bounds, inclusive)
within_range_inclusive(value, bounds, inclusive) ==
    IF ~IsTuple(bounds) THEN "TypeError"            \* lower, upper = bounds
    ELSE IF bounds[1] > bounds[2] THEN "ValueError"  \* Invalid bounds
    ELSE IF ~IsNumber(value) THEN "TypeError"        \* math.isnan(value)
    ELSE IF IsHuge(value) THEN "OverflowError"       \* math.isnan(10**400)
    ELSE IF IsNaN(value) THEN "False"
    ELSE IF inclusive
    THEN Bool(bounds[1] <= value.v /\ value.v <= bounds[2])
    ELSE Bool(bounds[1] < value.v /\ value.v < bounds[2])

\* within_range(value, bounds): inclusive takes its default, True
within_range(value, bounds) == within_range_inclusive(value, bounds, TRUE)

\* Python's  not x  for a comparator's outcome; an exception passes through
Not(r) ==
    CASE r = "True" -> "False"
      [] r = "False" -> "True"
      [] OTHER -> r

\* outside_range(value, bounds, inclusive)
outside_range(value, bounds, inclusive) ==
    Not(within_range_inclusive(value, bounds, inclusive))

\* null_safe(comparator, default)(value, threshold)
RECURSIVE Comparator(_, _, _)
null_safe(comparator, default, value, threshold) ==
    IF value = NoneV THEN Bool(default) ELSE Comparator(comparator, value, threshold)

Comparator(name, value, threshold) ==
    CASE name = "less_than" -> less_than(value, threshold)
      [] name = "greater_than" -> greater_than(value, threshold)
      [] name = "less_than_or_equal" -> less_than_or_equal(value, threshold)
      [] name = "greater_than_or_equal" -> greater_than_or_equal(value, threshold)
      [] name = "within_range" -> within_range(value, threshold)
      [] name = "null_safe(greater_than_or_equal)" ->
            null_safe("greater_than_or_equal", TRUE, value, threshold)

\* AllFrom, calling every comparator before it combines what they returned
AllFrom_Eager(comparators, i, value, threshold) ==
    LET rs == [k \in i..Len(comparators) |->
                  Comparator(comparators[k], value, threshold)]
        raising == {k \in DOMAIN rs : rs[k] \notin {"True", "False"}}
    IN  IF raising # {}
        THEN rs[CHOOSE k \in raising : \A j \in raising : k <= j]
        ELSE Bool(\A k \in DOMAIN rs : rs[k] = "True")

\* all(comp(value, threshold) for comp in comparators), from comparator i on
RECURSIVE AllFrom(_, _, _, _)
AllFrom(comparators, i, value, threshold) ==
    IF i > Len(comparators) THEN "True"
    ELSE LET r == Comparator(comparators[i], value, threshold)
         IN  IF r = "True" THEN AllFrom(comparators, i + 1, value, threshold)
             ELSE r

\* any(comp(value, threshold) for comp in comparators), from comparator i on
RECURSIVE AnyFrom(_, _, _, _)
AnyFrom(comparators, i, value, threshold) ==
    IF i > Len(comparators) THEN "False"
    ELSE LET r == Comparator(comparators[i], value, threshold)
         IN  IF r = "False" THEN AnyFrom(comparators, i + 1, value, threshold)
             ELSE r

\* all_of(*comparators)(value, threshold)
all_of(comparators, value, threshold) == AllFrom(comparators, 1, value, threshold)

\* any_of(*comparators)(value, threshold)
any_of(comparators, value, threshold) == AnyFrom(comparators, 1, value, threshold)

\* none_of(*comparators)(value, threshold)
none_of(comparators, value, threshold) == Not(AnyFrom(comparators, 1, value, threshold))

----------------------------------------------------------------------------
(* core.py: Constraint *)

Constraint(name, threshold, comparator, severity, provenance) ==
    [name |-> name, threshold |-> threshold, comparator |-> comparator,
     rationale |-> <<"rationale of ", name>>, severity |-> severity,
     provenance |-> provenance]

\* ConstraintEvaluate, returning the negation of what the comparator says
ConstraintEvaluate_Negated(c, value) ==
    LET r == Comparator(c.comparator, value, c.threshold)
    IN  IF r \in {"TypeError", "ValueError"}
        THEN [raised |-> "TypeError", satisfied |-> FALSE,
              message |-> <<"Cannot compare ", TypeName(value), " to ",
                            ThresholdTypeName(c.threshold),
                            " in constraint '", c.name, "'">>]
        ELSE IF r \in {"True", "False"}
        THEN [raised |-> "none", satisfied |-> (r = "False"), message |-> <<>>]
        ELSE [raised |-> r, satisfied |-> FALSE, message |-> <<>>]

\* Constraint.evaluate: [raised, satisfied, message]
ConstraintEvaluate(c, value) ==
    LET r == Comparator(c.comparator, value, c.threshold)
    IN  IF r \in {"TypeError", "ValueError"}
        THEN [raised |-> "TypeError", satisfied |-> FALSE,
              message |-> <<"Cannot compare ", TypeName(value), " to ",
                            ThresholdTypeName(c.threshold),
                            " in constraint '", c.name, "'">>]
        ELSE IF r \in {"True", "False"}
        THEN [raised |-> "none", satisfied |-> (r = "True"), message |-> <<>>]
        ELSE [raised |-> r, satisfied |-> FALSE, message |-> <<>>]

\* is_well_established, content with either of its two conditions
is_well_established_Either(p) == p.confidence >= 80 \/ p.references >= 3

\* Provenance.is_well_established
is_well_established(p) == p.confidence >= 80 /\ p.references >= 3

\* Provenance.requires_verification
requires_verification(p) == p.confidence < 60

----------------------------------------------------------------------------
(* core.py: Constraint.copy, Constraint.apply_modifier on the heap *)

NewId(h) == Cardinality(DOMAIN h) + 1

\* Copy, giving the new object no provenance
Copy_WithoutProvenance(h, id) ==
    [heap |-> h @@ (NewId(h) :> [h[id] EXCEPT !.provenance = NoProvenance]),
     id |-> NewId(h)]

\* Constraint.copy: a new object with the same field values
Copy(h, id) == [heap |-> h @@ (NewId(h) :> h[id]), id |-> NewId(h)]

\* a population modifier  lambda c: c.threshold * 1.5  (or * 2.0)
Modifier(m, c) ==
    IF IsTuple(c.threshold)
    THEN [raised |-> "TypeError", threshold |-> c.threshold]
    ELSE CASE m = "times_1_5" ->
                 [raised |-> "none", threshold |-> Scalar((c.threshold[1] * 3) \div 2)]
           [] m = "times_2" ->
                 [raised |-> "none", threshold |-> Scalar(c.threshold[1] * 2)]

\* ApplyModifier, calling the modifier and dropping what it returns
ApplyModifier_Discards(h, id, m) ==
    LET r == Modifier(m, h[id])
    IN  IF r.raised # "none"
        THEN [heap |-> h, raised |-> r.raised]
        ELSE [heap |-> h, raised |-> "none"]

\* Constraint.apply_modifier: self.threshold = modifier(self)
ApplyModifier(h, id, m) ==
    LET r == Modifier(m, h[id])
    IN  IF r.raised # "none"
        THEN [heap |-> h, raised |-> r.raised]
        ELSE [heap |-> [h EXCEPT ![id].threshold = r.threshold], raised |-> "none"]

----------------------------------------------------------------------------
(* core.py: PopulationStratification *)

NoPopulation == "<None>"

\* AddPopulationOp, adding the modifiers to those the name already has
AddPopulationOp_Merges(pops, name, modifiers) ==
    [n \in DOMAIN pops \cup {name} |->
        IF n = name
        THEN IF name \in DOMAIN pops THEN modifiers @@ pops[name] ELSE modifiers
        ELSE pops[n]]

\* PopulationStratification.get_populations: list(self.populations.keys())
get_populations(pops) ==
    CHOOSE names \in [1..Cardinality(DOMAIN pops) -> DOMAIN pops] :
        {names[k] : k \in 1..Len(names)} = DOMAIN pops

\* PopulationStratification.add_population
AddPopulationOp(pops, name, modifiers) ==
    [n \in DOMAIN pops \cup {name} |-> IF n = name THEN modifiers ELSE pops[n]]

\* CopyAndModify without the copy: the modifier is applied to the constraint
\* of the input list itself
CopyAndModify_InPlace(h, id, m) ==
    LET a == ApplyModifier(h, id, m)
    IN  [heap |-> a.heap, id |-> id, raised |-> a.raised]

\* the body of the loop of PopulationStratification.apply for one constraint
CopyAndModify(h, id, m) ==
    LET c == Copy(h, id)
        a == ApplyModifier(c.heap, c.id, m)
    IN  [heap |-> a.heap, id |-> c.id, raised |-> a.raised]

RECURSIVE ApplyLoop(_, _, _, _, _)
ApplyLoop(modifiers, h, constraints, i, adjusted) ==
    IF i > Len(constraints)
    THEN [heap |-> h, list |-> adjusted, raised |-> "none"]
    ELSE LET id == constraints[i]
         IN  IF h[id].name \in DOMAIN modifiers
             THEN LET r == CopyAndModify(h, id, modifiers[h[id].name])
                  IN  IF r.raised # "none"
                      THEN [heap |-> r.heap, list |-> adjusted, raised |-> r.raised]
                      ELSE ApplyLoop(modifiers, r.heap, constraints, i + 1,
                                     Append(adjusted, r.id))
             ELSE ApplyLoop(modifiers, h, constraints, i + 1, Append(adjusted, id))

\* PopulationApply, looking an unregistered name up in the registry
PopulationApply_NoFallback(pops, h, population, constraints) ==
    IF population = NoPopulation
    THEN [heap |-> h, list |-> constraints, raised |-> "none"]
    ELSE IF population \notin DOMAIN pops
    THEN [heap |-> h, list |-> constraints, raised |-> "KeyError"]
    ELSE ApplyLoop(pops[population], h, constraints, 1, <<>>)

\* PopulationStratification.apply
PopulationApply(pops, h, population, constraints) ==
    IF population = NoPopulation
    THEN [heap |-> h, list |-> constraints, raised |-> "none"]
    ELSE IF population \notin DOMAIN pops
    THEN [heap |-> h, list |-> constraints, raised |-> "none"]
    ELSE ApplyLoop(pops[population], h, constraints, 1, <<>>)

----------------------------------------------------------------------------
(* core.py: Candidate, Violation, EvaluationResult *)

Candidate(name, properties) == [name |-> name, properties |-> properties]

\* a candidate constructed with a provenance string and uncertainty bounds
\* (property -> <<lower, upper>>)
CandidateWith(name, properties, provenance, uncertainty) ==
    [name |-> name, properties |-> properties, provenance |-> provenance,
     uncertainty |-> uncertainty]

\* Candidate.get, answering with the upper uncertainty bound where the
\* candidate has one for the property
Get_UpperBound(candidate, property_name) ==
    IF property_name \in DOMAIN candidate.properties
    THEN IF /\ "uncertainty" \in DOMAIN candidate
            /\ property_name \in DOMAIN candidate.uncertainty
         THEN IntV(candidate.uncertainty[property_name][2])
         ELSE candidate.properties[property_name]
    ELSE NoneV

\* Candidate.get: None when the key is absent
Get(candidate, property_name) ==
    IF property_name \in DOMAIN candidate.properties
    THEN candidate.properties[property_name]
    ELSE NoneV

\* Candidate.has
Has(candidate, property_name) == property_name \in DOMAIN candidate.properties

\* Violation, with confidence 1.0 whatever the provenance
Violation_FullConfidence(c, value) ==
    [constraint |-> c.name, observed |-> value, threshold |-> c.threshold,
     rationale |-> c.rationale, severity |-> c.severity,
     confidence |-> 100]

\* the Violation that CuraFrame.evaluate builds for the constraint c
Violation(c, value) ==
    [constraint |-> c.name, observed |-> value, threshold |-> c.threshold,
     rationale |-> c.rationale, severity |-> c.severity,
     confidence |-> IF c.provenance.present THEN c.provenance.confidence ELSE 100]

EvaluationResult(status, violations, warnings, notes, candidate_name) ==
    [status |-> status, violations |-> violations, warnings |-> warnings,
     notes |-> notes, candidate_name |-> candidate_name]

\* EvaluationResult.has_warnings
has_warnings(r) ==
    Len(r.warnings) > 0
    \/ \E k \in 1..Len(r.violations) : r.violations[k].severity = "warning"

NoResult == EvaluationResult("none", <<>>, <<>>, <<>>, "")

Returned(r) == [raised |-> "none", result |-> r]
Raised(e) == [raised |-> e, result |-> NoResult]

MissingWarning(name) == <<"Property '", name, "' missing, constraint skipped">>
ModerateWarning(c) ==
    <<"Violation of '", c.name, "' based on moderate-confidence constraint (",
      ToString(c.provenance.confidence), ")">>

----------------------------------------------------------------------------
(* core.py: CuraFrame *)

\* DuplicateName, comparing the constraints instead of their names
DuplicateName_SameConstraint(constraints) ==
    \E i, j \in 1..Len(constraints) :
        i < j /\ constraints[i] = constraints[j]

\* CuraFrame._validate_constraints: TRUE when it raises ValueError
DuplicateName(constraints) ==
    \E i, j \in 1..Len(constraints) :
        i < j /\ constraints[i].name = constraints[j].name

\* FinalResult, rejecting only for a violation above severity WARNING
FinalResult_WarningTolerant(violations, warnings, candidate_name) ==
    IF \E k \in 1..Len(violations) : violations[k].severity # "warning"
    THEN EvaluationResult("rejected", violations, warnings,
                          <<"Failed ", ToString(Len(violations)), " constraint(s)">>,
                          candidate_name)
    ELSE EvaluationResult("accepted", violations, warnings,
                          <<"All constraints satisfied">>, candidate_name)

\* FinalResult, answering INDETERMINATE when nothing was violated but some
\* constraint was skipped with a warning
FinalResult_IndeterminateWhenWarned(violations, warnings, candidate_name) ==
    IF Len(violations) > 0
    THEN EvaluationResult("rejected", violations, warnings,
                          <<"Failed ", ToString(Len(violations)), " constraint(s)">>,
                          candidate_name)
    ELSE IF Len(warnings) > 0
    THEN EvaluationResult("indeterminate", violations, warnings,
                          <<"All constraints satisfied">>, candidate_name)
    ELSE EvaluationResult("accepted", violations, warnings,
                          <<"All constraints satisfied">>, candidate_name)

\* the status and notes chosen after the loop of CuraFrame.evaluate
FinalResult(violations, warnings, candidate_name) ==
    IF Len(violations) > 0
    THEN EvaluationResult("rejected", violations, warnings,
                          <<"Failed ", ToString(Len(violations)), " constraint(s)">>,
                          candidate_name)
    ELSE EvaluationResult("accepted", violations, warnings,
                          <<"All constraints satisfied">>, candidate_name)

\* MissingResult, naming the candidate instead of the property
MissingResult_NamesCandidate(c, candidate_name) ==
    EvaluationResult("indeterminate", <<>>, <<>>,
                     <<"Missing required property: ", candidate_name>>, candidate_name)

\* the early return of CuraFrame.evaluate for a missing property, strict mode
MissingResult(c, candidate_name) ==
    EvaluationResult("indeterminate", <<>>, <<>>,
                     <<"Missing required property: ", c.name>>, candidate_name)

\* the early return of CuraFrame.evaluate for a comparison error
ErrorResult(e, candidate_name) ==
    EvaluationResult("indeterminate", <<>>, <<>>,
                     <<"Constraint evaluation error: ">> \o e.message, candidate_name)

Continue(violations, warnings) ==
    [stop |-> FALSE, outcome |-> Raised("none"),
     violations |-> violations, warnings |-> warnings]
Stop(outcome) ==
    [stop |-> TRUE, outcome |-> outcome, violations |-> <<>>, warnings |-> <<>>]

\* EvaluateConstraint, aborting on a missing property whatever strict is
EvaluateConstraint_MissingAborts(c, candidate, strict, violations, warnings) ==
    LET value == Get(candidate, c.name)
        e == ConstraintEvaluate(c, value)
    IN  IF value = NoneV
        THEN Stop(Returned(MissingResult(c, candidate.name)))
        ELSE IF e.raised = "TypeError"
        THEN Stop(Returned(ErrorResult(e, candidate.name)))
        ELSE IF e.raised # "none"
        THEN Stop(Raised(e.raised))
        ELSE IF ~e.satisfied
        THEN Continue(Append(violations, Violation(c, value)),
                      IF c.provenance.present /\ ~is_well_established(c.provenance)
                      THEN Append(warnings, ModerateWarning(c))
                      ELSE warnings)
        ELSE Continue(violations, warnings)

\* EvaluateConstraint, ending a strict call at its first violation
EvaluateConstraint_StrictFailsFast(c, candidate, strict, violations, warnings) ==
    LET value == Get(candidate, c.name)
        e == ConstraintEvaluate(c, value)
    IN  IF value = NoneV
        THEN IF strict
             THEN Stop(Returned(MissingResult(c, candidate.name)))
             ELSE Continue(violations, Append(warnings, MissingWarning(c.name)))
        ELSE IF e.raised = "TypeError"
        THEN Stop(Returned(ErrorResult(e, candidate.name)))
        ELSE IF e.raised # "none"
        THEN Stop(Raised(e.raised))
        ELSE IF ~e.satisfied
        THEN IF strict
             THEN Stop(Returned(FinalResult(<<Violation(c, value)>>, <<>>,
                                            candidate.name)))
             ELSE Continue(Append(violations, Violation(c, value)),
                           IF c.provenance.present /\ ~is_well_established(c.provenance)
                           THEN Append(warnings, ModerateWarning(c))
                           ELSE warnings)
        ELSE Continue(violations, warnings)

\* EvaluateConstraint, taking a property for missing when Candidate.has says
\* so, and handing a None that is present to the comparator
EvaluateConstraint_MissingByHas(c, candidate, strict, violations, warnings) ==
    LET value == Get(candidate, c.name)
        e == ConstraintEvaluate(c, value)
    IN  IF ~Has(candidate, c.name)
        THEN IF strict
             THEN Stop(Returned(MissingResult(c, candidate.name)))
             ELSE Continue(violations, Append(warnings, MissingWarning(c.name)))
        ELSE IF e.raised = "TypeError"
        THEN Stop(Returned(ErrorResult(e, candidate.name)))
        ELSE IF e.raised # "none"
        THEN Stop(Raised(e.raised))
        ELSE IF ~e.satisfied
        THEN Continue(Append(violations, Violation(c, value)),
                      IF c.provenance.present /\ ~is_well_established(c.provenance)
                      THEN Append(warnings, ModerateWarning(c))
                      ELSE warnings)
        ELSE Continue(violations, warnings)

\* EvaluateConstraint, with early returns that carry the violations and the
\* warnings collected so far
EvaluateConstraint_EarlyKeepsFindings(c, candidate, strict, violations, warnings) ==
    LET value == Get(candidate, c.name)
        e == ConstraintEvaluate(c, value)
    IN  IF value = NoneV
        THEN IF strict
             THEN Stop(Returned([MissingResult(c, candidate.name) EXCEPT
                                    !.violations = violations,
                                    !.warnings = warnings]))
             ELSE Continue(violations, Append(warnings, MissingWarning(c.name)))
        ELSE IF e.raised = "TypeError"
        THEN Stop(Returned([ErrorResult(e, candidate.name) EXCEPT
                               !.violations = violations,
                               !.warnings = warnings]))
        ELSE IF e.raised # "none"
        THEN Stop(Raised(e.raised))
        ELSE IF ~e.satisfied
        THEN Continue(Append(violations, Violation(c, value)),
                      IF c.provenance.present /\ ~is_well_established(c.provenance)
                      THEN Append(warnings, ModerateWarning(c))
                      ELSE warnings)
        ELSE Continue(violations, warnings)

\* EvaluateConstraint, skipping a comparison error with a warning in
\* non-strict mode as it skips a missing property
EvaluateConstraint_ErrorSkipped(c, candidate, strict, violations, warnings) ==
    LET value == Get(candidate, c.name)
        e == ConstraintEvaluate(c, value)
    IN  IF value = NoneV
        THEN IF strict
             THEN Stop(Returned(MissingResult(c, candidate.name)))
             ELSE Continue(violations, Append(warnings, MissingWarning(c.name)))
        ELSE IF e.raised = "TypeError"
        THEN IF strict
             THEN Stop(Returned(ErrorResult(e, candidate.name)))
             ELSE Continue(violations, Append(warnings, e.message))
        ELSE IF e.raised # "none"
        THEN Stop(Raised(e.raised))
        ELSE IF ~e.satisfied
        THEN Continue(Append(violations, Violation(c, value)),
                      IF c.provenance.present /\ ~is_well_established(c.provenance)
                      THEN Append(warnings, ModerateWarning(c))
                      ELSE warnings)
        ELSE Continue(violations, warnings)

\* the body of the loop of CuraFrame.evaluate, for the constraint c
EvaluateConstraint(c, candidate, strict, violations, warnings) ==
    LET value == Get(candidate, c.name)
        e == ConstraintEvaluate(c, value)
    IN  IF value = NoneV
        THEN IF strict
             THEN Stop(Returned(MissingResult(c, candidate.name)))
             ELSE Continue(violations, Append(warnings, MissingWarning(c.name)))
        ELSE IF e.raised = "TypeError"
        THEN Stop(Returned(ErrorResult(e, candidate.name)))
        ELSE IF e.raised # "none"
        THEN Stop(Raised(e.raised))
        ELSE IF ~e.satisfied
        THEN Continue(Append(violations, Violation(c, value)),
                      IF c.provenance.present /\ ~is_well_established(c.provenance)
                      THEN Append(warnings, ModerateWarning(c))
                      ELSE warnings)
        ELSE Continue(violations, warnings)

\* the loop of CuraFrame.evaluate over the effective constraints
RECURSIVE EvaluateLoop(_, _, _, _, _, _, _)
EvaluateLoop(h, constraints, i, candidate, strict, violations, warnings) ==
    IF i > Len(constraints)
    THEN Returned(FinalResult(violations, warnings, candidate.name))
    ELSE LET s == EvaluateConstraint(h[constraints[i]], candidate, strict,
                                     violations, warnings)
         IN  IF s.stop
             THEN s.outcome
             ELSE EvaluateLoop(h, constraints, i + 1, candidate, strict,
                               s.violations, s.warnings)

\* EvaluateOp, turning a modifier's error into an INDETERMINATE result as it
\* does a comparator's
EvaluateOp_ModifierErrorCaught(pops, h, base, candidate, population, strict) ==
    LET a == PopulationApply(pops, h, population, base)
    IN  IF a.raised # "none"
        THEN [heap |-> a.heap,
              outcome |-> Returned(ErrorResult([message |-> <<a.raised>>],
                                               candidate.name))]
        ELSE [heap |-> a.heap,
              outcome |-> EvaluateLoop(a.heap, a.list, 1, candidate, strict,
                                       <<>>, <<>>)]

\* CuraFrame.evaluate: [heap, outcome]
EvaluateOp(pops, h, base, candidate, population, strict) ==
    LET a == PopulationApply(pops, h, population, base)
    IN  IF a.raised # "none"
        THEN [heap |-> a.heap, outcome |-> Raised(a.raised)]
        ELSE [heap |-> a.heap,
              outcome |-> EvaluateLoop(a.heap, a.list, 1, candidate, strict,
                                       <<>>, <<>>)]

\* objects no list refers to any more are gone once the call has returned
Reachable(h, ids) == [id \in {ids[k] : k \in 1..Len(ids)} |-> h[id]]

----------------------------------------------------------------------------
(* Inputs *)

MaxConstraints == 2

K_logP ==
    Constraint("logP", Scalar(4), "less_than_or_equal", "critical", Provenance(90, 1))
K_hERG ==
    Constraint("hERG_IC50", Scalar(10), "greater_than_or_equal", "warning", NoProvenance)
K_hERG_range ==
    Constraint("hERG_IC50", Bounds(5, 12), "within_range", "severe", Provenance(85, 3))
K_logP_inverted ==
    Constraint("logP", Bounds(4, 1), "within_range", "critical", Provenance(50, 3))

ConstraintPool == {K_logP, K_hERG, K_hERG_range, K_logP_inverted}

ConstraintLists == UNION {[1..n -> ConstraintPool] : n \in 0..MaxConstraints}

\* candidate property maps: a logP that is absent, satisfying (3), violating
\* (6) or a string, with an hERG_IC50 that is absent, violating (5), borderline
\* (12: above the base threshold, below the adjusted one), satisfying (20),
\* None, or an int too large for a float
PropertyMaps ==
    {<<>>,
     ("logP" :> IntV(3)),
     ("logP" :> IntV(6)),
     ("logP" :> StrV),
     ("hERG_IC50" :> IntV(5)),
     ("logP" :> IntV(3) @@ "hERG_IC50" :> IntV(12)),
     ("logP" :> IntV(3) @@ "hERG_IC50" :> IntV(20)),
     ("logP" :> IntV(6) @@ "hERG_IC50" :> IntV(5)),
     ("logP" :> IntV(6) @@ "hERG_IC50" :> IntV(12)),
     ("logP" :> StrV @@ "hERG_IC50" :> IntV(5)),
     ("logP" :> IntV(3) @@ "hERG_IC50" :> HugeV),
     ("logP" :> IntV(3) @@ "hERG_IC50" :> NoneV)}

Candidates ==
    {Candidate("cand_a", f) : f \in PropertyMaps}
    \cup {Candidate("cand_b", ("logP" :> IntV(3) @@ "hERG_IC50" :> IntV(12)))}

RegisteredNames == {"elderly"}

ModifierMaps ==
    {("hERG_IC50" :> "times_1_5"),
     ("logP" :> "times_2" @@ "beta1_selectivity" :> "times_2")}

\* "elderly" is an unregistered name until add_population has registered it
PopulationArgs == {NoPopulation, "elderly"}

----------------------------------------------------------------------------
(* The engine as a state machine *)

NoCandidate == Candidate("", <<>>)

Call(op, candidate, population, strict, outcome) ==
    [op |-> op, candidate |-> candidate, population |-> population,
     strict |-> strict, outcome |-> outcome]

NoCall(op) == Call(op, NoCandidate, NoPopulation, TRUE, Raised("none"))

\* the call add_population(name, modifiers)
Registration(name, modifiers) ==
    [op |-> "add_population", candidate |-> NoCandidate, population |-> name,
     strict |-> TRUE, outcome |-> Raised("none"), modifiers |-> modifiers]

\* the fields of the constraints of a list of object ids
Fields(h, ids) == [k \in 1..Len(ids) |-> h[ids[k]]]

\* no call is in progress: every call runs from its entry to its return
NoThreads == <<>>

Init ==
    /\ phase = "new"
    /\ given \in ConstraintLists
    /\ safety_constraints = <<>>
    /\ heap = <<>>
    /\ populations = <<>>
    /\ evaluation_history = <<>>
    /\ last = NoCall("none")
    /\ threads = NoThreads

\* CuraFrame.__init__
Construct ==
    /\ phase = "new"
    /\ IF DuplicateName(given)
       THEN /\ phase' = "config_error"
            /\ UNCHANGED <<safety_constraints, heap>>
       ELSE /\ phase' = "ready"
            /\ safety_constraints' = [k \in 1..Len(given) |-> k]
            /\ heap' = given
    /\ last' = NoCall("construct")
    /\ UNCHANGED <<given, populations, evaluation_history, threads>>

\* CuraFrame.add_population
AddPopulation(name, modifiers) ==
    /\ phase = "ready"
    /\ populations' = AddPopulationOp(populations, name, modifiers)
    /\ last' = Registration(name, modifiers)
    /\ UNCHANGED <<phase, given, safety_constraints, heap, evaluation_history,
                   threads>>

\* Evaluate, keeping the adjusted constraints as the engine's constraints
Evaluate_AdjustedBecomesBase(candidate, population, strict) ==
    /\ phase = "ready"
    /\ Len(evaluation_history) < MaxHistory
    /\ \E r \in {EvaluateOp(populations, heap, safety_constraints,
                             candidate, population, strict)},
          a \in {PopulationApply(populations, heap, population,
                                  safety_constraints)} :
           /\ safety_constraints' =
                 IF a.raised = "none" THEN a.list ELSE safety_constraints
           /\ heap' = Reachable(r.heap, safety_constraints')
           /\ evaluation_history' =
                 IF r.outcome.raised = "none"
                 THEN Append(evaluation_history, r.outcome.result)
                 ELSE evaluation_history
           /\ last' = Call("evaluate", candidate, population, strict, r.outcome)
    /\ UNCHANGED <<phase, given, populations, threads>>

\* Evaluate, with early returns that skip the append to history
Evaluate_EarlyReturnUnrecorded(candidate, population, strict) ==
    /\ phase = "ready"
    /\ Len(evaluation_history) < MaxHistory
    /\ \E r \in {EvaluateOp(populations, heap, safety_constraints,
                             candidate, population, strict)} :
           /\ heap' = Reachable(r.heap, safety_constraints)
           /\ evaluation_history' =
                 IF r.outcome.raised = "none" /\ r.outcome.result.status # "indeterminate"
                 THEN Append(evaluation_history, r.outcome.result)
                 ELSE evaluation_history
           /\ last' = Call("evaluate", candidate, population, strict, r.outcome)
    /\ UNCHANGED <<phase, given, safety_constraints, populations, threads>>

\* CuraFrame.evaluate
Evaluate(candidate, population, strict) ==
    /\ phase = "ready"
    /\ Len(evaluation_history) < MaxHistory
    /\ \E r \in {EvaluateOp(populations, heap, safety_constraints,
                             candidate, population, strict)} :
           /\ heap' = Reachable(r.heap, safety_constraints)
           /\ evaluation_history' =
                 IF r.outcome.raised = "none"
                 THEN Append(evaluation_history, r.outcome.result)
                 ELSE evaluation_history
           /\ last' = Call("evaluate", candidate, population, strict, r.outcome)
    /\ UNCHANGED <<phase, given, safety_constraints, populations, threads>>

Next ==
    \/ Construct
    \/ \E name \in RegisteredNames, modifiers \in ModifierMaps :
          AddPopulation(name, modifiers)
    \/ \E candidate \in Candidates, population \in PopulationArgs,
          strict \in BOOLEAN :
          Evaluate(candidate, population, strict)

Spec == Init /\ [][Next]_vars

----------------------------------------------------------------------------
(* What the latest evaluate() call was asked, stated from the constraints  *)
(* the engine was constructed with, the registry and the candidate         *)

Evaluated == phase = "ready" /\ last.op = "evaluate"
Result == last.outcome.result
ReturnedResult == Evaluated /\ last.outcome.raised = "none"

N == Len(given)

\* the population of the call is a registered one
Registered ==
    last.population # NoPopulation /\ last.population \in DOMAIN populations

\* constraint k has a modifier in the population of the call
Adjusted(k) == Registered /\ given[k].name \in DOMAIN populations[last.population]

AdjustmentOf(k) == Modifier(populations[last.population][given[k].name], given[k])

\* resolving the effective constraints fails: some modifier raises
ModifierFails == \E k \in 1..N : Adjusted(k) /\ AdjustmentOf(k).raised # "none"

\* the threshold constraint k is to be checked against
EffectiveThreshold(k) ==
    IF Adjusted(k) THEN AdjustmentOf(k).threshold ELSE given[k].threshold

ValueOf(k) ==
    IF given[k].name \in DOMAIN last.candidate.properties
    THEN last.candidate.properties[given[k].name]
    ELSE NoneV

Missing(k) == ValueOf(k) = NoneV

\* what the comparator of constraint k says of the candidate's value
Verdict(k) ==
    IF ModifierFails THEN "not invoked"
    ELSE Comparator(given[k].comparator, ValueOf(k), EffectiveThreshold(k))

Satisfied(k) == ~Missing(k) /\ Verdict(k) = "True"
Failing(k) == ~Missing(k) /\ Verdict(k) = "False"
Incomparable(k) == ~Missing(k) /\ Verdict(k) \notin {"True", "False"}

\* no strict-mode missing property, no comparison error
RunsToCompletion ==
    /\ ~ModifierFails
    /\ last.strict => \A k \in 1..N : ~Missing(k)
    /\ \A k \in 1..N : ~Incomparable(k)

\* the positions of the failing constraints, in constraint-list order
FailingPositions == SelectSeq([k \in 1..N |-> k], LAMBDA k : Failing(k))

C2_AcceptedWhenAllSatisfied ==
    (Evaluated /\ \A k \in 1..N : Satisfied(k)) =>
        /\ last.outcome.raised = "none"
        /\ Result.status = "accepted"
        /\ Result.violations = <<>>
        /\ Result.candidate_name = last.candidate.name

\* two constraints, both satisfied, one against an adjusted threshold
C2_Witness ==
    /\ Evaluated /\ N = 2
    /\ \A k \in 1..N : Satisfied(k)
    /\ \E k \in 1..N : Adjusted(k)
    /\ Result.status = "accepted"

SomeMissing == \E k \in 1..N : Missing(k)
FirstMissing == CHOOSE k \in 1..N : Missing(k) /\ \A j \in 1..(k - 1) : ~Missing(j)

IsMissingResult ==
    /\ last.outcome.raised = "none"
    /\ Result.status = "indeterminate"
    /\ Result.notes = <<"Missing required property: ", given[FirstMissing].name>>
    /\ Result.violations = <<>>

\* C3 as claimed: in strict mode a missing property yields INDETERMINATE with
\* notes naming the first missing property, whatever the other properties are,
\* those that cannot be compared included.
C3_AsClaimed ==
    (Evaluated /\ last.strict /\ SomeMissing) => IsMissingResult

\* C3: in strict mode, when the effective constraints resolve and no constraint
\* before the first missing one fails to compare, the result is INDETERMINATE
\* with notes naming the first missing property and with no violations,
\* whether the other properties satisfy or violate their constraints.
C3_StrictMissingIsIndeterminate ==
    (/\ Evaluated /\ last.strict /\ SomeMissing
     /\ ~ModifierFails
     /\ \A j \in 1..(FirstMissing - 1) : ~Incomparable(j)) => IsMissingResult

\* the second constraint's property is missing, the first one's violates
C3_Witness ==
    /\ Evaluated /\ last.strict /\ N = 2
    /\ Failing(1) /\ Missing(2)
    /\ IsMissingResult

\* the result warns once of the missing property of constraint k and holds no
\* violation of it
SkippedWithWarning(k) ==
    /\ last.outcome.raised = "none"
    /\ Cardinality({j \in 1..Len(Result.warnings) :
                      Result.warnings[j] = MissingWarning(given[k].name)}) = 1
    /\ \A j \in 1..Len(Result.violations) :
          Result.violations[j].constraint # given[k].name

\* the result is REJECTED and records the violation of constraint k
RejectedFor(k) ==
    /\ last.outcome.raised = "none"
    /\ Result.status = "rejected"
    /\ \E j \in 1..Len(Result.violations) :
          /\ Result.violations[j].constraint = given[k].name
          /\ Result.violations[j].observed = ValueOf(k)

\* no comparison is in error and the effective constraints resolve
NothingIncomparable == ~ModifierFails /\ \A k \in 1..N : ~Incomparable(k)

NonStrictClauses ==
    /\ \A k \in 1..N : Missing(k) => SkippedWithWarning(k)
    /\ NothingIncomparable =>
          last.outcome.raised = "none" /\ Result.status # "indeterminate"
    /\ \A k \in 1..N : Failing(k) => RejectedFor(k)

\* C4 as claimed: in non-strict mode every missing property adds one warning
\* and no violation, a missing property alone never gives INDETERMINATE, and
\* any present violating property gives REJECTED with the violation recorded.
C4_AsClaimed ==
    (Evaluated /\ ~last.strict) => NonStrictClauses

\* C4: the same, for the non-strict evaluations that no comparison error
\* aborts and whose effective constraints resolve.
C4_NonStrictSkipsMissing ==
    (Evaluated /\ ~last.strict /\ NothingIncomparable) => NonStrictClauses

\* one property is missing, the other violates its constraint
C4_Witness ==
    /\ Evaluated /\ ~last.strict /\ NothingIncomparable /\ N = 2
    /\ \E k \in 1..N : Missing(k)
    /\ \E k \in 1..N : Failing(k)
    /\ Result.status = "rejected"
    /\ Len(Result.warnings) >= 1

\* C5 as claimed (tests/test_core.py, test_all_properties_missing_non_strict):
\* in non-strict mode, when every constrained property is missing, the result
\* is not ACCEPTED and has warnings.
C5_AsClaimed ==
    (/\ Evaluated /\ ~last.strict /\ ~ModifierFails
     /\ N >= 1 /\ \A k \in 1..N : Missing(k)) =>
        /\ last.outcome.raised = "none"
        /\ Result.status # "accepted"
        /\ has_warnings(Result)

\* the base constraints as the engine holds them now
BaseNow == Fields(heap, safety_constraints)

\* what evaluate(candidate, population=None, strict) returns on the
\* constraints the engine was constructed with
FreshOutcome(candidate, strict) ==
    EvaluateLoop(given, [k \in 1..N |-> k], 1, candidate, strict, <<>>, <<>>)

\* C6: evaluate() under a registered population leaves the base constraint
\* list and every field of every base constraint as they were, so a later
\* evaluate(population=None) returns what it returned before any adjustment.
C6_AdjustmentIsNonDestructive ==
    phase = "ready" =>
        /\ safety_constraints = [k \in 1..N |-> k]
        /\ BaseNow = given
        /\ (Evaluated /\ last.population = NoPopulation) =>
              last.outcome = FreshOutcome(last.candidate, last.strict)

\* an evaluation under a registered population recorded a violation against
\* an adjusted threshold, and the next one, under no population, accepted the
\* same values against the base threshold
C6_Witness ==
    /\ Evaluated /\ last.population = NoPopulation
    /\ Len(evaluation_history) = 2
    /\ \E j \in 1..Len(evaluation_history[1].violations) :
          /\ evaluation_history[1].violations[j].constraint = "hERG_IC50"
          /\ evaluation_history[1].violations[j].threshold = Scalar(15)
          /\ evaluation_history[1].violations[j].observed = IntV(12)
    /\ Result.status = "accepted"
    /\ ValueOf(N) = IntV(12)

HasViolationOf(k) ==
    \E j \in 1..Len(Result.violations) :
        Result.violations[j].constraint = given[k].name

\* C7: under a registered population a constraint with a modifier is checked
\* against modifier(constraint), any other against its base threshold, and a
\* violation records the threshold used; base 10 with a x1.5 modifier and >=:
\* value 12 is ACCEPTED under no population and REJECTED under the population
\* with the single violation's threshold 15.
C7_CheckedAgainstAdjustedThreshold ==
    /\ (Evaluated /\ Registered /\ RunsToCompletion) =>
          /\ last.outcome.raised = "none"
          /\ \A k \in 1..N :
                LET modifiers == populations[last.population]
                    used == IF given[k].name \in DOMAIN modifiers
                            THEN Modifier(modifiers[given[k].name], given[k]).threshold
                            ELSE given[k].threshold
                IN  /\ HasViolationOf(k) <=>
                          /\ ~Missing(k)
                          /\ Comparator(given[k].comparator, ValueOf(k), used) = "False"
                    /\ \A j \in 1..Len(Result.violations) :
                          Result.violations[j].constraint = given[k].name =>
                              Result.violations[j].threshold = used
    /\ (/\ Evaluated /\ given = <<K_logP, K_hERG>>
        /\ last.candidate.properties = ("logP" :> IntV(3) @@ "hERG_IC50" :> IntV(12))) =>
          /\ last.population = NoPopulation => Result.status = "accepted"
          /\ (Registered /\ populations[last.population] = ("hERG_IC50" :> "times_1_5")) =>
                /\ Result.status = "rejected"
                /\ Len(Result.violations) = 1
                /\ Result.violations[1].constraint = "hERG_IC50"
                /\ Result.violations[1].threshold = Scalar(15)

\* value 12 against base threshold 10 adjusted to 15: one violation, and the
\* other constraint, which has no modifier, checked against its base threshold
C7_Witness ==
    /\ Evaluated /\ Registered /\ RunsToCompletion
    /\ given = <<K_logP, K_hERG>>
    /\ last.candidate.properties = ("logP" :> IntV(3) @@ "hERG_IC50" :> IntV(12))
    /\ Result.status = "rejected"
    /\ Len(Result.violations) = 1
    /\ Result.violations[1].threshold = Scalar(15)

StoppedByComparison ==
    /\ ~ModifierFails
    /\ \E k \in 1..N :
          /\ Incomparable(k)
          /\ \A j \in 1..(k - 1) : ~Incomparable(j) /\ (last.strict => ~Missing(j))

\* C9 as claimed: a comparison failure on a candidate's value never leaves
\* evaluate() as an error; the call returns INDETERMINATE with the error
\* message in the notes, and that result is appended to history.
C9_AsClaimed ==
    (Evaluated /\ StoppedByComparison) =>
        /\ last.outcome.raised = "none"
        /\ Result.status = "indeterminate"
        /\ Len(Result.notes) > 1
        /\ Result.notes[1] = "Constraint evaluation error: "
        /\ Len(evaluation_history) >= 1
        /\ evaluation_history[Len(evaluation_history)] = Result

NamesDistinct == Cardinality({given[k].name : k \in 1..N}) = N

\* C10: constructing the engine fails with a configuration error, and yields
\* no engine, exactly when two constraints of the list share a name; with
\* distinct names, the empty list included, it succeeds.
C10_DuplicateNamesRejected ==
    phase # "new" =>
        /\ NamesDistinct =>
              phase = "ready" /\ Fields(heap, safety_constraints) = given
        /\ ~NamesDistinct =>
              /\ phase = "config_error"
              /\ safety_constraints = <<>>
              /\ evaluation_history = <<>>

\* two different constraints of the same name: no engine
C10_Witness ==
    /\ phase = "config_error"
    /\ N = 2
    /\ given[1] # given[2]
    /\ given[1].name = given[2].name

\* the threshold of constraint c is a pair of bounds with lower > upper
InvalidBounds(c) == IsTuple(c.threshold) /\ c.threshold[1] > c.threshold[2]

\* C11 as claimed: a range constraint whose bounds have lower > upper is a
\* configuration error raised at construction: no engine holds such a
\* constraint and no evaluation result is ever produced from one.
C11_AsClaimed ==
    (phase # "new" /\ \E k \in 1..N : InvalidBounds(given[k])) =>
        /\ phase = "config_error"
        /\ evaluation_history = <<>>

\* r is one of the two early returns: its notes are those of the strict-mode
\* missing property or those of the comparison error
IsEarlyReturn(r) ==
    /\ Len(r.notes) >= 2
    /\ r.notes[1] \in {"Missing required property: ", "Constraint evaluation error: "}

StatusAgreesWithViolations(r) ==
    /\ r.status \in {"accepted", "rejected", "indeterminate"}
    /\ r.status = "rejected" <=> r.violations # <<>>
    /\ r.status = "accepted" => r.violations = <<>>
    /\ r.status = "indeterminate" => IsEarlyReturn(r) /\ r.violations = <<>>
    /\ IsEarlyReturn(r) => r.status = "indeterminate"

C13_HistoryIsAppendOnly ==
    [][IF last'.op = "evaluate" /\ last'.outcome.raised = "none"
       THEN evaluation_history' = Append(evaluation_history, last'.outcome.result)
       ELSE evaluation_history' = evaluation_history]_vars

\* two returned calls, the first an early return for a missing property in
\* strict mode, the second a REJECTED one for another candidate under a
\* registered population: history holds both, in call order
C13_Witness ==
    /\ Evaluated /\ last.outcome.raised = "none" /\ Registered
    /\ Len(evaluation_history) = 2
    /\ evaluation_history[1].status = "indeterminate"
    /\ evaluation_history[1].notes[1] = "Missing required property: "
    /\ evaluation_history[1].candidate_name = "cand_a"
    /\ evaluation_history[2] = Result
    /\ Result.status = "rejected"
    /\ Result.candidate_name = "cand_b"

\* get_history() without a name
NoName == "<None>"

\* CuraFrame.get_history
get_history(history, candidate_name) ==
    IF candidate_name = NoName
    THEN history
    ELSE SelectSeq(history, LAMBDA r : r.candidate_name = candidate_name)

CandidateNames == {c.name : c \in Candidates}

\* s holds, in the order of history, exactly the entries of history whose
\* candidate_name is name
IsFilterOf(s, history, name) ==
    /\ \A j \in 1..Len(s) : s[j].candidate_name = name
    /\ Len(s) = Cardinality({i \in 1..Len(history) : history[i].candidate_name = name})
    /\ \E pos \in [1..Len(s) -> 1..Len(history)] :
          /\ \A j \in 1..Len(s) : history[pos[j]] = s[j]
          /\ \A j \in 1..(Len(s) - 1) : pos[j] < pos[j + 1]

HistoryIsFiltered ==
    /\ get_history(evaluation_history, NoName) = evaluation_history
    /\ \A name \in CandidateNames \cup {"cand_c"} :
          IsFilterOf(get_history(evaluation_history, name), evaluation_history, name)

\* the count get_history gives for the name grows by one in this step and the
\* count of every other name stays
CountedFor(name) ==
    /\ Len(get_history(evaluation_history', name)) =
          Len(get_history(evaluation_history, name)) + 1
    /\ \A other \in CandidateNames \ {name} :
          Len(get_history(evaluation_history', other)) =
             Len(get_history(evaluation_history, other))

\* C14 as claimed: get_history(name) is history filtered by exact name, in
\* order, get_history() is all of history, and every evaluate() call made with
\* a candidate of a name raises the count returned for that name by one.
C14_AsClaimed ==
    [][/\ HistoryIsFiltered'
       /\ last'.op = "evaluate" => CountedFor(last'.candidate.name)]_vars

\* C15 as claimed (Severity.WARNING: "caution advised, not grounds for
\* rejection"): a candidate whose only failing constraints are of severity
\* WARNING is not given status REJECTED.
C15_AsClaimed ==
    (/\ Evaluated /\ RunsToCompletion
     /\ \E k \in 1..N : Failing(k)
     /\ \A k \in 1..N : Failing(k) => given[k].severity = "warning") =>
        /\ last.outcome.raised = "none"
        /\ Result.status # "rejected"

----------------------------------------------------------------------------
(* evaluate() calls of several threads on one engine. A thread runs the    *)
(* code of CuraFrame.evaluate one loop iteration at a time; the locals of  *)
(* its call (constraints, violations, warnings) are its own, the engine's  *)
(* fields and the heap are shared.                                         *)

Threads == {"t1", "t2"}

Idle ==
    [pc |-> "idle", candidate |-> NoCandidate, population |-> NoPopulation,
     strict |-> TRUE, constraints |-> <<>>, i |-> 0,
     violations |-> <<>>, warnings |-> <<>>, outcome |-> Raised("none")]

\* the calls the threads make: (candidate, population, strict)
ThreadCalls ==
    {<<Candidate("cand_b", ("logP" :> IntV(3) @@ "hERG_IC50" :> IntV(12))),
       NoPopulation, TRUE>>,
     <<Candidate("cand_b", ("logP" :> IntV(3) @@ "hERG_IC50" :> IntV(12))),
       "elderly", TRUE>>,
     <<Candidate("cand_a", ("logP" :> IntV(6) @@ "hERG_IC50" :> IntV(5))),
       "elderly", FALSE>>,
     <<Candidate("cand_a", ("logP" :> IntV(3))), NoPopulation, FALSE>>,
     <<Candidate("cand_a", ("logP" :> StrV @@ "hERG_IC50" :> IntV(5))),
       "elderly", TRUE>>,
     <<Candidate("cand_a", ("logP" :> IntV(3) @@ "hERG_IC50" :> HugeV)),
       NoPopulation, TRUE>>}

InitThreads ==
    /\ phase = "new"
    /\ given \in ConstraintLists
    /\ safety_constraints = <<>>
    /\ heap = <<>>
    /\ populations = <<>>
    /\ evaluation_history = <<>>
    /\ last = NoCall("none")
    /\ threads = [t \in Threads |-> Idle]

\* no thread has entered evaluate() yet
NoneBegun == \A t \in Threads : threads[t].pc = "idle"

\* entry of evaluate(), and of PopulationStratification.apply up to its loop
Begin(t, candidate, population, strict) ==
    /\ phase = "ready"
    /\ threads[t].pc = "idle"
    /\ threads' = [threads EXCEPT ![t] =
          IF population = NoPopulation \/ population \notin DOMAIN populations
          THEN [Idle EXCEPT !.pc = "loop", !.candidate = candidate,
                            !.population = population, !.strict = strict,
                            !.constraints = safety_constraints, !.i = 1]
          ELSE [Idle EXCEPT !.pc = "apply", !.candidate = candidate,
                            !.population = population, !.strict = strict,
                            !.i = 1]]
    /\ UNCHANGED <<phase, given, safety_constraints, heap, populations,
                   evaluation_history, last>>

\* one iteration of the loop of PopulationStratification.apply
ApplyStep(t) ==
    LET th == threads[t]
        modifiers == populations[th.population]
    IN  /\ th.pc = "apply"
        /\ IF th.i > Len(safety_constraints)
           THEN /\ threads' = [threads EXCEPT ![t].pc = "loop", ![t].i = 1]
                /\ heap' = heap
           ELSE LET id == safety_constraints[th.i]
                IN  IF heap[id].name \in DOMAIN modifiers
                    THEN \E r \in {CopyAndModify(heap, id, modifiers[heap[id].name])} :
                            /\ heap' = r.heap
                            /\ threads' =
                                  IF r.raised # "none"
                                  THEN [threads EXCEPT ![t].pc = "done",
                                                       ![t].outcome = Raised(r.raised)]
                                  ELSE [threads EXCEPT
                                           ![t].constraints = Append(@, r.id),
                                           ![t].i = @ + 1]
                    ELSE /\ heap' = heap
                         /\ threads' = [threads EXCEPT
                                           ![t].constraints = Append(@, id),
                                           ![t].i = @ + 1]
        /\ UNCHANGED <<phase, given, safety_constraints, populations,
                       evaluation_history, last>>

\* one iteration of the loop of CuraFrame.evaluate, or what follows the loop
EvaluateStep(t) ==
    LET th == threads[t]
    IN  /\ th.pc = "loop"
        /\ IF th.i > Len(th.constraints)
           THEN threads' = [threads EXCEPT
                   ![t].pc = "record",
                   ![t].outcome = Returned(FinalResult(th.violations, th.warnings,
                                                       th.candidate.name))]
           ELSE \E s \in {EvaluateConstraint(heap[th.constraints[th.i]], th.candidate,
                                             th.strict, th.violations, th.warnings)} :
                   threads' =
                      IF s.stop
                      THEN [threads EXCEPT
                              ![t].pc = IF s.outcome.raised = "none"
                                        THEN "record" ELSE "done",
                              ![t].outcome = s.outcome]
                      ELSE [threads EXCEPT
                              ![t].violations = s.violations,
                              ![t].warnings = s.warnings,
                              ![t].i = @ + 1]
        /\ UNCHANGED <<phase, given, safety_constraints, heap, populations,
                       evaluation_history, last>>

\* self.evaluation_history.append(result); return result
Record(t) ==
    /\ threads[t].pc = "record"
    /\ evaluation_history' = Append(evaluation_history, threads[t].outcome.result)
    /\ threads' = [threads EXCEPT ![t].pc = "done"]
    /\ UNCHANGED <<phase, given, safety_constraints, heap, populations, last>>

NextThreads ==
    \/ NoneBegun /\ Construct
    \/ \E name \in RegisteredNames, modifiers \in ModifierMaps :
          NoneBegun /\ AddPopulation(name, modifiers)
    \/ \E t \in Threads, call \in ThreadCalls : Begin(t, call[1], call[2], call[3])
    \/ \E t \in Threads : ApplyStep(t)
    \/ \E t \in Threads : EvaluateStep(t)
    \/ \E t \in Threads : Record(t)

SpecThreads == InitThreads /\ [][NextThreads]_vars

AllDone == phase = "ready" /\ \A t \in Threads : threads[t].pc = "done"

\* what the call of thread t gives when it runs alone on the engine as
\* constructed and registered
AloneOutcome(t) ==
    EvaluateOp(populations, given, [k \in 1..N |-> k], threads[t].candidate,
               threads[t].population, threads[t].strict).outcome

\* every finished call ended as it ends alone, and the base constraints are
\* as constructed
CallsAreIsolated ==
    /\ phase = "ready" => Fields(heap, safety_constraints) = given
    /\ \A t \in Threads :
          threads[t].pc = "done" => threads[t].outcome = AloneOutcome(t)

\* history holds one entry per call: the results of the threads, in the order
\* of their appends
OneEntryPerCall ==
    /\ Len(evaluation_history) = Cardinality(Threads)
    /\ \E order \in [1..Len(evaluation_history) -> Threads] :
          /\ \A i, j \in 1..Len(evaluation_history) : i # j => order[i] # order[j]
          /\ \A i \in 1..Len(evaluation_history) :
                /\ threads[order[i]].outcome.raised = "none"
                /\ evaluation_history[i] = threads[order[i]].outcome.result

\* C16 as claimed: when the evaluate() calls of several threads interleave on
\* one engine, registration having been completed before, each call ends as it
\* ends alone, no call sees a threshold adjusted for another, and history ends
\* up with exactly one entry per call.
C16_AsClaimed ==
    AllDone => CallsAreIsolated /\ OneEntryPerCall

----------------------------------------------------------------------------

\* the violation v is that of constraint k of the engine
DescribesConstraint(v, k) ==
    /\ v.constraint = given[k].name
    /\ v.rationale = given[k].rationale
    /\ v.severity = given[k].severity
    /\ v.confidence = IF given[k].provenance.present
                      THEN given[k].provenance.confidence
                      ELSE 100

\* C17: every Violation that evaluate() produces, in a returned result or in
\* history, under a population or not, carries the violated constraint's name,
\* rationale and severity, and as confidence the constraint's
\* provenance.confidence, or 1.0 when the constraint has no provenance.
C17_ViolationCarriesConfidence ==
    /\ \A j \in 1..Len(evaluation_history) :
          \A i \in 1..Len(evaluation_history[j].violations) :
             \E k \in 1..N :
                DescribesConstraint(evaluation_history[j].violations[i], k)
    /\ (Evaluated /\ last.outcome.raised = "none") =>
          \A i \in 1..Len(Result.violations) :
             \E k \in 1..N :
                /\ Failing(k)
                /\ DescribesConstraint(Result.violations[i], k)

\* two violations under a registered population: one of a constraint with
\* provenance (confidence 0.9), one of an adjusted constraint without
C17_Witness ==
    /\ Evaluated /\ last.outcome.raised = "none" /\ Registered
    /\ Len(Result.violations) = 2
    /\ Result.violations[1].confidence = 90
    /\ Result.violations[2].confidence = 100
    /\ \E k \in 1..N : Adjusted(k) /\ ~given[k].provenance.present

\* constraint k is the one whose comparison error ends the call: nothing
\* before it ended it
AbortsAt(k) ==
    /\ ~ModifierFails
    /\ Incomparable(k)
    /\ \A j \in 1..(k - 1) : ~Incomparable(j) /\ (last.strict => ~Missing(j))

\* the call ended on the comparison of constraint k, whatever follows k: as
\* the INDETERMINATE result naming k, or as the error the comparator let out
EndedAt(k) ==
    IF Verdict(k) \in {"TypeError", "ValueError"}
    THEN /\ last.outcome.raised = "none"
         /\ Result.status = "indeterminate"
         /\ Len(Result.notes) = 8
         /\ Result.notes[1] = "Constraint evaluation error: "
         /\ Result.notes[7] = given[k].name
         /\ \A j \in 1..N : ~HasViolationOf(j)
         /\ \A j \in (k + 1)..N :
               \A w \in 1..Len(Result.warnings) :
                  Result.warnings[w] # MissingWarning(given[j].name)
    ELSE last.outcome = Raised(Verdict(k))

\* C18: a comparison error on the constraint at position k ends the call
\* there, in strict and in non-strict mode alike: the outcome is that of
\* constraint k and shows nothing of the constraints after k (no violation, no
\* missing-property note or warning, no error of theirs); a missing property
\* in non-strict mode ends nothing: every later constraint is still evaluated,
\* its violation recorded or its comparison error returned.
C18_ComparisonErrorAborts ==
    Evaluated =>
        /\ \A k \in 1..N : AbortsAt(k) => EndedAt(k)
        /\ \A k \in 1..N :
              (~last.strict /\ ~ModifierFails /\ Missing(k)) =>
                 \A j \in (k + 1)..N :
                    /\ (NothingIncomparable /\ Failing(j)) => RejectedFor(j)
                    /\ AbortsAt(j) => EndedAt(j)

\* non-strict mode, a comparison error on the first of two constraints, the
\* second one's property missing: INDETERMINATE for the first, no warning
C18_Witness ==
    /\ Evaluated /\ ~last.strict /\ N = 2
    /\ AbortsAt(1) /\ Missing(2)
    /\ Result.status = "indeterminate"
    /\ Result.warnings = <<>>

EarlyReturnIsBare(r) ==
    r.status = "indeterminate" => r.violations = <<>> /\ r.warnings = <<>>

\* C19: both early-return INDETERMINATE results (missing property in strict
\* mode, comparison error) have no violations and no warnings, also when
\* constraints earlier in the list were found violated or produced warnings in
\* the same call.
C19_EarlyReturnsAreBare ==
    /\ \A j \in 1..Len(evaluation_history) : EarlyReturnIsBare(evaluation_history[j])
    /\ (Evaluated /\ last.outcome.raised = "none") =>
          /\ EarlyReturnIsBare(Result)
          /\ ((last.strict /\ SomeMissing) \/ \E k \in 1..N : Incomparable(k)) =>
                Result.status = "indeterminate"

\* a strict call whose first constraint was violated, with a
\* moderate-confidence warning, before the second one's property was found
\* missing; before it, a call ended by a comparison error that followed a
\* violation
C19_Witness ==
    /\ Evaluated /\ last.strict /\ N = 2
    /\ Failing(1) /\ given[1].provenance.present
    /\ ~is_well_established(given[1].provenance)
    /\ Missing(2)
    /\ Result.status = "indeterminate"
    /\ Result.violations = <<>> /\ Result.warnings = <<>>
    /\ Len(evaluation_history) = 2
    /\ evaluation_history[1].notes[1] = "Constraint evaluation error: "

----------------------------------------------------------------------------

\* thread t has the list that PopulationStratification.apply returned for a
\* registered population
HoldsAdjustedList(t) ==
    /\ threads[t].pc \in {"loop", "record"}
    /\ threads[t].population \in DOMAIN populations

\* element k of the list of thread t is a clone of base constraint k: another
\* object, with the adjusted threshold and otherwise the fields of the base
IsAdjustedClone(t, k) ==
    LET id == threads[t].constraints[k]
        base == safety_constraints[k]
        m == populations[threads[t].population][heap[base].name]
    IN  /\ id \notin {safety_constraints[j] : j \in 1..Len(safety_constraints)}
        /\ \A u \in Threads \ {t} :
              id \notin {threads[u].constraints[j] : j \in 1..Len(threads[u].constraints)}
        /\ heap[id] = [heap[base] EXCEPT !.threshold = Modifier(m, heap[base]).threshold]
        /\ heap[base] = given[k]

\* C20: for a registered population, apply returns a list with the length, the
\* names and the order of its input: each constraint with a registered
\* modifier is replaced by a clone of its own with the adjusted threshold and
\* otherwise identical fields, every other element is the very same object as
\* in the input, and a modifier for a name no constraint has is ignored.
C20_ApplyClonesOnlyAdjusted ==
    \A t \in DOMAIN threads :
        HoldsAdjustedList(t) =>
            /\ Len(threads[t].constraints) = Len(safety_constraints)
            /\ \A k \in 1..Len(safety_constraints) :
                  /\ heap[threads[t].constraints[k]].name = given[k].name
                  /\ IF given[k].name \in DOMAIN populations[threads[t].population]
                     THEN IsAdjustedClone(t, k)
                     ELSE threads[t].constraints[k] = safety_constraints[k]

\* a population with a modifier for logP and one for a name no constraint
\* has: the list is a clone of the logP constraint with threshold 8 (base 4),
\* followed by the hERG_IC50 constraint itself
C20_Witness ==
    /\ given = <<K_logP, K_hERG>>
    /\ \E t \in DOMAIN threads :
          /\ HoldsAdjustedList(t)
          /\ DOMAIN populations[threads[t].population] = {"logP", "beta1_selectivity"}
          /\ threads[t].constraints[2] = safety_constraints[2]
          /\ threads[t].constraints[1] # safety_constraints[1]
          /\ heap[threads[t].constraints[1]].threshold = Scalar(8)
          /\ heap[threads[t].constraints[1]].provenance = Provenance(90, 1)

----------------------------------------------------------------------------
(* Registration under two population names, registered and re-registered   *)
(* between evaluations                                                     *)

PopulationNames == {"elderly", "pediatric"}

\* the mappings registered: those of ModifierMaps and the empty one
RegistryMaps == ModifierMaps \cup {<<>>}

RegistryLists ==
    UNION {[1..n -> {K_logP, K_hERG}] : n \in 0..MaxConstraints}

RegistryCandidates ==
    {Candidate("cand_a", ("logP" :> IntV(3) @@ "hERG_IC50" :> IntV(12))),
     Candidate("cand_a", ("logP" :> IntV(6) @@ "hERG_IC50" :> IntV(12))),
     Candidate("cand_a", ("logP" :> IntV(6) @@ "hERG_IC50" :> IntV(5)))}

InitRegistry ==
    /\ phase = "new"
    /\ given \in RegistryLists
    /\ safety_constraints = <<>>
    /\ heap = <<>>
    /\ populations = <<>>
    /\ evaluation_history = <<>>
    /\ last = NoCall("none")
    /\ threads = NoThreads

NextRegistry ==
    \/ Construct
    \/ \E name \in PopulationNames, modifiers \in RegistryMaps :
          AddPopulation(name, modifiers)
    \/ \E candidate \in RegistryCandidates, population \in PopulationNames :
          Evaluate(candidate, population, TRUE)

SpecRegistry == InitRegistry /\ [][NextRegistry]_vars

\* the step add_population(name, m2) leaves name mapped to m2 alone, every
\* other name mapped as before, and name once in the list of names
ReplacesMapping ==
    LET name == last'.population
        m2 == last'.modifiers
        names == get_populations(populations')
    IN  /\ DOMAIN populations' = DOMAIN populations \cup {name}
        /\ populations'[name] = m2
        /\ \A other \in DOMAIN populations \ {name} :
              populations'[other] = populations[other]
        /\ Cardinality({k \in 1..Len(names) : names[k] = name}) = 1

\* the violations of the latest call are those of the constraints that fail
\* against the thresholds of the mapping now registered for its population: a
\* constraint without a modifier there is checked against its base threshold
UsesRegisteredMapping ==
    (Evaluated /\ Registered /\ RunsToCompletion) =>
        /\ last.outcome.raised = "none"
        /\ \A k \in 1..N :
              /\ HasViolationOf(k) <=> Failing(k)
              /\ \A j \in 1..Len(Result.violations) :
                    Result.violations[j].constraint = given[k].name =>
                       Result.violations[j].threshold =
                          IF given[k].name \in DOMAIN populations[last.population]
                          THEN Modifier(populations[last.population][given[k].name],
                                        given[k]).threshold
                          ELSE given[k].threshold

\* C21: add_population(name, m2) on a registered name replaces its mapping by
\* m2, without merging; the mappings of the other populations stay, the name
\* is listed once, nothing but add_population changes the registry, and every
\* later evaluate() under the name applies m2's modifiers only: a constraint
\* the earlier mapping adjusted and m2 does not is checked against its base
\* threshold.
C21_ReRegistrationReplaces ==
    /\ [][IF last'.op = "add_population"
          THEN ReplacesMapping
          ELSE populations' = populations]_vars
    /\ []UsesRegisteredMapping

\* "elderly" was registered with the x1.5 modifier of hERG_IC50, under which
\* value 12 was a violation of threshold 15, then re-registered with a mapping
\* without it: the same value is accepted against the base threshold 10, and
\* the mapping of "pediatric" is still there
C21_Witness ==
    /\ Evaluated /\ last.population = "elderly"
    /\ DOMAIN populations = {"elderly", "pediatric"}
    /\ populations["pediatric"] = <<>>
    /\ populations["elderly"] = ("logP" :> "times_2" @@ "beta1_selectivity" :> "times_2")
    /\ given = <<K_logP, K_hERG>>
    /\ Len(evaluation_history) = 2
    /\ evaluation_history[1].violations # <<>>
    /\ evaluation_history[1].violations[1].threshold = Scalar(15)
    /\ last.candidate.properties["hERG_IC50"] = IntV(12)
    /\ Result.status = "accepted"

----------------------------------------------------------------------------
(* Constraints of every standing of provenance: none, well established,    *)
(* short of confidence, short of references                                *)

Provenances ==
    {NoProvenance, Provenance(90, 1), Provenance(85, 3), Provenance(80, 3),
     Provenance(79, 3), Provenance(50, 0), Provenance(100, 2)}

ProvenancePool ==
    {Constraint("logP", Scalar(4), "less_than_or_equal", "critical", p) :
        p \in Provenances}
    \cup {K_hERG}

ProvenanceLists == UNION {[1..n -> ProvenancePool] : n \in 0..MaxConstraints}

ProvenanceCandidates ==
    {Candidate("cand_a", ("logP" :> IntV(3) @@ "hERG_IC50" :> IntV(12))),
     Candidate("cand_a", ("logP" :> IntV(6) @@ "hERG_IC50" :> IntV(12))),
     Candidate("cand_a", ("logP" :> IntV(6) @@ "hERG_IC50" :> IntV(5))),
     Candidate("cand_a", ("hERG_IC50" :> IntV(5)))}

InitProvenance ==
    /\ phase = "new"
    /\ given \in ProvenanceLists
    /\ safety_constraints = <<>>
    /\ heap = <<>>
    /\ populations = <<>>
    /\ evaluation_history = <<>>
    /\ last = NoCall("none")
    /\ threads = NoThreads

NextProvenance ==
    \/ Construct
    \/ \E candidate \in ProvenanceCandidates, strict \in BOOLEAN :
          Evaluate(candidate, NoPopulation, strict)

SpecProvenance == InitProvenance /\ [][NextProvenance]_vars

\* the number of warnings of the result that name constraint k as violated
ViolationWarnings(k) ==
    Cardinality({j \in 1..Len(Result.warnings) :
                    /\ Len(Result.warnings[j]) >= 2
                    /\ Result.warnings[j][1] = "Violation of '"
                    /\ Result.warnings[j][2] = given[k].name})

\* C22: an evaluate() that runs to completion has one warning naming a
\* constraint as violated exactly when that constraint is violated and has
\* provenance with confidence below 0.8 or fewer than 3 references; a
\* satisfied constraint, a skipped one and a violated one without provenance
\* or with well-established provenance get none.
C22_WarnsOfModerateConfidence ==
    (Evaluated /\ RunsToCompletion) =>
        /\ last.outcome.raised = "none"
        /\ \A k \in 1..N :
              ViolationWarnings(k) =
                 IF /\ Failing(k)
                    /\ given[k].provenance.present
                    /\ \/ given[k].provenance.confidence < 80
                       \/ given[k].provenance.references < 3
                 THEN 1
                 ELSE 0

\* a violated constraint with three references and confidence 0.79 is warned
\* of, next to a violated constraint without provenance that is not
C22_Witness ==
    /\ Evaluated /\ RunsToCompletion /\ N = 2
    /\ \E k \in 1..N :
          /\ Failing(k) /\ given[k].provenance = Provenance(79, 3)
          /\ ViolationWarnings(k) = 1
    /\ \E k \in 1..N :
          /\ Failing(k) /\ ~given[k].provenance.present
          /\ ViolationWarnings(k) = 0
    /\ Len(Result.warnings) = 1

----------------------------------------------------------------------------
(* The comparators as functions of their arguments: a behaviour is one     *)
(* call, a step that records the arguments and what the comparators give   *)
(* for them; the comparators keep no state from one call to the next       *)

MaxValue == 4
MaxComparators == 2

ComparedValues ==
    {IntV(n) : n \in 0..MaxValue} \cup {IntV(5), IntV(15), StrV, HugeV, NaNV}

ComparedThresholds ==
    {Bounds(lo, hi) : lo, hi \in 1..(MaxValue - 1)}
    \cup {Bounds(4, 10), Bounds(10, 20), Scalar(2)}

ComparatorNames ==
    {"less_than", "less_than_or_equal", "greater_than", "greater_than_or_equal",
     "within_range"}

ComparatorLists == UNION {[1..n -> ComparatorNames] : n \in 0..MaxComparators}

InitComparators ==
    /\ phase = "new"
    /\ given = <<>>
    /\ safety_constraints = <<>>
    /\ heap = <<>>
    /\ populations = <<>>
    /\ evaluation_history = <<>>
    /\ last = NoCall("none")
    /\ threads = NoThreads

\* within_range(value, bounds, inclusive) and outside_range(value, bounds, inclusive)
CompareRange(value, bounds, inclusive) ==
    /\ last.op = "none"
    /\ last' = [op |-> "range", value |-> value, threshold |-> bounds,
                inclusive |-> inclusive,
                within |-> within_range_inclusive(value, bounds, inclusive),
                outside |-> outside_range(value, bounds, inclusive)]
    /\ UNCHANGED <<phase, given, safety_constraints, heap, populations,
                   evaluation_history, threads>>

\* all_of, any_of and none_of of the comparators, called with (value, threshold)
Combine(comparators, value, threshold) ==
    /\ last.op = "none"
    /\ last' = [op |-> "combine", comparators |-> comparators, value |-> value,
                threshold |-> threshold,
                all |-> all_of(comparators, value, threshold),
                any |-> any_of(comparators, value, threshold),
                none |-> none_of(comparators, value, threshold)]
    /\ UNCHANGED <<phase, given, safety_constraints, heap, populations,
                   evaluation_history, threads>>

NextComparators ==
    \/ \E value \in ComparedValues, bounds \in ComparedThresholds,
          inclusive \in BOOLEAN :
          CompareRange(value, bounds, inclusive)
    \/ \E comparators \in ComparatorLists, value \in ComparedValues,
          threshold \in ComparedThresholds :
          Combine(comparators, value, threshold)

SpecComparators == InitComparators /\ [][NextComparators]_vars

RangeCompared == last.op = "range"

\* C23: for all values and bounds (lo, hi), with lo > hi within_range fails
\* with the invalid-bounds error; otherwise it returns true exactly when
\* lo <= v <= hi with inclusive=true and when lo < v < hi with
\* inclusive=false, and returns false for every other number, NaN included;
\* outside_range returns the negation of what within_range returns and fails
\* where and as within_range fails.
C23_RangeComparators ==
    RangeCompared =>
        LET v == last.value
            lo == last.threshold[1]
            hi == last.threshold[2]
            finite == v.type = "int" /\ ~v.huge
            inside == /\ finite
                      /\ IF last.inclusive
                         THEN lo <= v.v /\ v.v <= hi
                         ELSE lo < v.v /\ v.v < hi
        IN  /\ (Len(last.threshold) = 2 /\ lo > hi) =>
                  last.within = "ValueError" /\ last.outside = "ValueError"
            /\ (Len(last.threshold) = 2 /\ lo <= hi) =>
                  /\ last.within = "True" <=> inside
                  /\ (finite \/ v = NaNV) => last.within = Bool(inside)
            /\ last.outside = "True" <=> last.within = "False"
            /\ last.outside = "False" <=> last.within = "True"
            /\ last.outside \notin {"True", "False"} => last.outside = last.within

\* a value equal to the upper bound: inside with inclusive=true (and not
\* outside), not inside with inclusive=false (and outside)
C23_Witness ==
    /\ RangeCompared
    /\ last.threshold = Bounds(1, 3) /\ last.value = IntV(3)
    /\ ~last.inclusive
    /\ last.within = "False" /\ last.outside = "True"
    /\ within_range_inclusive(last.value, last.threshold, TRUE) = "True"

Combined == last.op = "combine"

\* what comparator i of the combined ones gives for the arguments of the call
ResultOf(i) == Comparator(last.comparators[i], last.value, last.threshold)

NoneRaises ==
    \A i \in 1..Len(last.comparators) : ResultOf(i) \in {"True", "False"}

\* comparator i returns r and every comparator before it returned the
\* opposite: i decides, whatever the comparators after it would do
Decides(i, r) ==
    /\ ResultOf(i) = r
    /\ \A j \in 1..(i - 1) : ResultOf(j) = Not(r)

C25_AsClaimed ==
    /\ (/\ Combined
        /\ last.comparators = <<"greater_than", "less_than_or_equal">>
        /\ last.value.type = "int" /\ ~last.value.huge
        /\ Len(last.threshold) = 2) =>
          last.all = Bool(last.threshold[1] < last.value.v
                          /\ last.value.v <= last.threshold[2])
    /\ (/\ Combined
        /\ last.comparators = <<"less_than", "greater_than">>
        /\ last.value = IntV(15)
        /\ last.threshold = Bounds(10, 20)) =>
          last.any = "True"

----------------------------------------------------------------------------
(* Candidates that hold None for a property, against constraints whose     *)
(* comparator is or is not wrapped by null_safe                            *)

K_hERG_null_safe ==
    Constraint("hERG_IC50", Scalar(10), "null_safe(greater_than_or_equal)",
               "severe", Provenance(85, 3))

NoneLists ==
    UNION {[1..n -> {K_logP, K_hERG, K_hERG_null_safe}] : n \in 0..MaxConstraints}

NoneCandidates ==
    {Candidate("cand_a", f) :
        f \in {("logP" :> IntV(3) @@ "hERG_IC50" :> NoneV),
               ("logP" :> IntV(6) @@ "hERG_IC50" :> NoneV),
               ("logP" :> NoneV @@ "hERG_IC50" :> IntV(5)),
               ("logP" :> NoneV @@ "hERG_IC50" :> NoneV),
               ("logP" :> NoneV),
               ("logP" :> IntV(3)),
               ("logP" :> IntV(3) @@ "hERG_IC50" :> IntV(12))}}

InitNone ==
    /\ phase = "new"
    /\ given \in NoneLists
    /\ safety_constraints = <<>>
    /\ heap = <<>>
    /\ populations = <<>>
    /\ evaluation_history = <<>>
    /\ last = NoCall("none")
    /\ threads = NoThreads

NextNone ==
    \/ Construct
    \/ \E candidate \in NoneCandidates, strict \in BOOLEAN :
          Evaluate(candidate, NoPopulation, strict)

SpecNone == InitNone /\ [][NextNone]_vars

\* the candidate holds the property of constraint k, with the value None
PresentNone(k) ==
    /\ given[k].name \in DOMAIN last.candidate.properties
    /\ last.candidate.properties[given[k].name] = NoneV

\* the candidate without the properties it holds None for
WithoutNone(candidate) ==
    Candidate(candidate.name,
              [p \in {q \in DOMAIN candidate.properties :
                         candidate.properties[q] # NoneV} |->
                  candidate.properties[p]])

\* C26: a property the candidate holds with the value None (Candidate.has
\* says it is there) is to evaluate() an absent property: the call ends as
\* it ends for the candidate without it, in strict mode INDETERMINATE with the
\* missing-property note, in non-strict mode skipped with a warning; the
\* comparator, one wrapped by null_safe included, is not called with None, so
\* the constraint comes out neither satisfied nor violated.
C26_NoneIsMissing ==
    (Evaluated /\ \E k \in 1..N : PresentNone(k)) =>
        /\ \A k \in 1..N : PresentNone(k) => Has(last.candidate, given[k].name)
        /\ last.outcome =
              EvaluateOp(populations, given, [k \in 1..N |-> k],
                         WithoutNone(last.candidate), last.population,
                         last.strict).outcome
        /\ (/\ last.strict /\ ~ModifierFails
            /\ \A j \in 1..(FirstMissing - 1) : ~Incomparable(j)) => IsMissingResult
        /\ (~last.strict /\ NothingIncomparable) =>
              \A k \in 1..N :
                 PresentNone(k) => SkippedWithWarning(k) /\ ~HasViolationOf(k)
        /\ last.outcome.raised = "none" =>
              (Result.status = "accepted" => ~last.strict /\ has_warnings(Result))

\* non-strict mode: hERG_IC50 is None and its comparator is wrapped by
\* null_safe, which would answer true for None: the constraint is skipped with
\* a warning
C26_Witness ==
    /\ Evaluated /\ ~last.strict
    /\ \E k \in 1..N :
          /\ PresentNone(k)
          /\ given[k].comparator = "null_safe(greater_than_or_equal)"
          /\ SkippedWithWarning(k)
    /\ Has(last.candidate, "hERG_IC50")
    /\ Result.status = "accepted"

----------------------------------------------------------------------------
(* Candidates that carry a provenance string and uncertainty bounds        *)

NoUncertainty == <<>>

Uncertainties ==
    {NoUncertainty,
     ("logP" :> <<2, 5>>),
     ("logP" :> <<1, 3>> @@ "hERG_IC50" :> <<4, 15>>)}

ProvenanceStrings == {"none", "QSAR"}

UncertainProperties ==
    {("logP" :> IntV(3) @@ "hERG_IC50" :> IntV(12)),
     ("logP" :> IntV(6) @@ "hERG_IC50" :> IntV(12)),
     ("logP" :> IntV(3) @@ "hERG_IC50" :> IntV(5)),
     ("logP" :> IntV(3))}

UncertainCandidates ==
    {CandidateWith("cand_a", f, p, u) :
        f \in UncertainProperties, p \in ProvenanceStrings, u \in Uncertainties}

InitUncertainty ==
    /\ phase = "new"
    /\ given \in RegistryLists
    /\ safety_constraints = <<>>
    /\ heap = <<>>
    /\ populations = <<>>
    /\ evaluation_history = <<>>
    /\ last = NoCall("none")
    /\ threads = NoThreads

NextUncertainty ==
    \/ Construct
    \/ \E modifiers \in ModifierMaps : AddPopulation("elderly", modifiers)
    \/ \E candidate \in UncertainCandidates, population \in PopulationArgs,
          strict \in BOOLEAN :
          Evaluate(candidate, population, strict)

SpecUncertainty == InitUncertainty /\ [][NextUncertainty]_vars

\* the candidates with the name and the properties of c
SameNameAndProperties(c) ==
    {d \in UncertainCandidates : d.name = c.name /\ d.properties = c.properties}

\* C27: what evaluate() returns (status, violations, warnings, notes) is the
\* same for every candidate with the same name and properties, whatever its
\* uncertainty bounds and provenance string, under the same engine, population
\* and strict flag.
C27_UncertaintyIsIgnored ==
    Evaluated =>
        \A d \in SameNameAndProperties(last.candidate) :
            EvaluateOp(populations, heap, safety_constraints, d,
                       last.population, last.strict).outcome = last.outcome

\* logP = 3 is accepted against logP <= 4 although the candidate says logP may
\* be as high as 5
C27_Witness ==
    /\ Evaluated
    /\ N >= 1 /\ given[1] = K_logP
    /\ last.candidate.properties["logP"] = IntV(3)
    /\ last.candidate.uncertainty = ("logP" :> <<2, 5>>)
    /\ last.candidate.provenance = "QSAR"
    /\ last.outcome.raised = "none"
    /\ Result.status = "accepted"

----------------------------------------------------------------------------
(* Repeated evaluations under a population whose modifiers may fail        *)

AdjustLists ==
    UNION {[1..n -> {K_logP, K_hERG, K_hERG_range}] : n \in 0..MaxConstraints}

AdjustCandidates ==
    {Candidate("cand_a", f) :
        f \in {("logP" :> IntV(3) @@ "hERG_IC50" :> IntV(12)),
               ("logP" :> IntV(6) @@ "hERG_IC50" :> IntV(12)),
               ("logP" :> IntV(3) @@ "hERG_IC50" :> IntV(5)),
               ("logP" :> IntV(6) @@ "hERG_IC50" :> IntV(20)),
               ("logP" :> IntV(3))}}

InitAdjust ==
    /\ phase = "new"
    /\ given \in AdjustLists
    /\ safety_constraints = <<>>
    /\ heap = <<>>
    /\ populations = <<>>
    /\ evaluation_history = <<>>
    /\ last = NoCall("none")
    /\ threads = NoThreads

NextAdjust ==
    \/ Construct
    \/ \E modifiers \in ModifierMaps : AddPopulation("elderly", modifiers)
    \/ \E candidate \in AdjustCandidates, population \in PopulationArgs,
          strict \in BOOLEAN :
          Evaluate(candidate, population, strict)

SpecAdjust == InitAdjust /\ [][NextAdjust]_vars

\* C28: an evaluate() call in which a population modifier fails (a
\* multiplication applied to a pair-shaped threshold) ends in that error, not
\* in a result; the step appends nothing to history and leaves the base list
\* and every field of every base constraint as they were.
C28_ModifierErrorPropagates ==
    [][(last'.op = "evaluate" /\ ModifierFails') =>
          /\ last'.outcome = Raised("TypeError")
          /\ evaluation_history' = evaluation_history
          /\ safety_constraints' = safety_constraints
          /\ BaseNow' = BaseNow
          /\ BaseNow' = given]_vars

\* hERG_IC50 within (5, 12), under a population that multiplies the
\* hERG_IC50 threshold by 1.5: the call raises TypeError after an earlier call
\* has left one entry in history, and history still has that one entry
C28_Witness ==
    /\ Evaluated /\ ModifierFails
    /\ \E k \in 1..N : given[k] = K_hERG_range /\ Adjusted(k)
    /\ last.outcome = Raised("TypeError")
    /\ Len(evaluation_history) = 1
    /\ BaseNow = given

\* the constraints the engine was constructed with, each with the threshold
\* its modifier in the population of the call makes of the base threshold
AdjustedOnce ==
    [k \in 1..N |-> [given[k] EXCEPT !.threshold = EffectiveThreshold(k)]]

\* the step is an evaluate() call with the arguments of the evaluate() call
\* before it
RepeatsCall ==
    /\ last.op = "evaluate" /\ last'.op = "evaluate"
    /\ last'.candidate = last.candidate
    /\ last'.population = last.population
    /\ last'.strict = last.strict

\* C29: every evaluate() under a registered population, however many calls
\* came before it, checks each adjusted constraint against modifier(base
\* threshold), and an evaluate() call that repeats the call before it returns
\* an equal result.
C29_AdjustmentDoesNotCompound ==
    /\ []((Evaluated /\ Registered /\ ~ModifierFails) =>
            last.outcome =
               EvaluateLoop(AdjustedOnce, [k \in 1..N |-> k], 1,
                            last.candidate, last.strict, <<>>, <<>>))
    /\ [][RepeatsCall => last'.outcome = last.outcome]_vars

\* hERG_IC50 = 12 against base 10 adjusted to 15: the second call under the
\* population has recorded the threshold 15, as the first did
C29_Witness ==
    /\ Evaluated /\ Registered
    /\ \E k \in 1..N : given[k] = K_hERG /\ Adjusted(k)
    /\ last.outcome.raised = "none"
    /\ Len(evaluation_history) = 2
    /\ evaluation_history[1] = evaluation_history[2]
    /\ \E j \in 1..Len(Result.violations) :
          /\ Result.violations[j].constraint = "hERG_IC50"
          /\ Result.violations[j].threshold = Scalar(15)

\* every property a constraint of the engine names is present and not None
AllPresent == \A k \in 1..N : ~Missing(k)

\* C30: for a candidate in which every constrained property is present
\* (non-None), evaluate() with the other strict flag ends as the call did: the
\* same status, violations, warnings and notes.
C30_StrictOnlyMattersWhenMissing ==
    (Evaluated /\ AllPresent) =>
        EvaluateOp(populations, heap, safety_constraints, last.candidate,
                   last.population, ~last.strict).outcome = last.outcome

\* a strict call on a candidate with both properties present, rejected for
\* both constraints with a warning of moderate confidence
C30_Witness ==
    /\ Evaluated /\ AllPresent /\ last.strict
    /\ N = 2
    /\ last.outcome.raised = "none"
    /\ Result.status = "rejected"
    /\ Len(Result.violations) = 2
    /\ has_warnings(Result)

====
